---- MODULE Spec2Model ----
(***************************************************************************)
(* A model of pureshell/__init__.py: the PureShellMethod descriptor        *)
(* (resolution of the pure function on attribute access, the wrapper that  *)
(* gathers live attributes, calls the pure function and writes back), the  *)
(* ruleset_provider decorator, StatefulEntity.__init__ and the             *)
(* declaration-time check of Ruleset.__init_subclass__.                    *)
(***************************************************************************)
EXTENDS Integers, Sequences, FiniteSets, TLC

\* ------------------------------------------------------------------ bounds

\* Attribute values are the integers 0..MaxVal.
MaxVal == 1

Mod == MaxVal + 1

Values == 0 .. MaxVal

\* Bound on the length of a list held by a field.
MaxLen == 2

\* ------------------------------------------------------- program constants

\* Python's None as a returned value.
NoneVal == -1

\* _sentinel = object(): the default of getattr for an absent attribute.
Sentinel == -2

Entities == {"e1"}

\* The instances of the application with two entities.
AllEntities == Entities \cup {"e2"}

Callers == {"c1"}

\* The tasks of the application with two concurrent calls.
AllCallers == Callers \cup {"c2"}

\* StatefulEntity subclasses of the application; SubEntity derives from MyEntity.
EntityTypes == {"MyEntity", "SubEntity"}

Parent(t) == IF t = "SubEntity" THEN "MyEntity" ELSE "StatefulEntity"

FieldNames == {"data", "bonus"}

\* The number of leading underscores of a member name (what str.startswith
\* tests in the declaration-time checks).
LeadingUnderscores(n) ==
  CASE n = "__helper__" -> 2
    [] n = "_helper" -> 1
    [] n = "__custom_dunder__" -> 2
    [] n = "__len__" -> 2
    [] n = "_internal_helper" -> 1
    [] n = "_rules" -> 1
    [] n = "_instance_rules" -> 1
    [] OTHER -> 0

\* ---------------------------------------------------------------------- lists

\* The items a caller appends to a list.
Items == 1 .. MaxVal + 1

ItemBase == MaxVal + 2

\* A Python list of items is held as a number: [] is 0 and l + [x] is
\* l * ItemBase + x, so the digits in base ItemBase are the items in order.
EmptyList == 0

ListAppend(l, x) == l * ItemBase + x

\* ------------------------------------------------------------ pure functions

AsyncFuncs == {"A_fetch_value", "A_fetch_both", "A_withdraw_later"}

\* asyncio.iscoroutinefunction(actual_func_resolved)
IsCoroutineFunction(f) == f \in AsyncFuncs

\* What each pure function of the application computes from its positional
\* arguments (live attribute values first, then the caller's arguments).
Apply(f, a) ==
  CASE f = "A_get_value" -> (2 * a[1]) % Mod
    [] f = "B_get_value" -> (2 * a[1] + 1) % Mod
    [] f = "A_add_value" -> IF a[1] = 0 THEN a[2] ELSE a[3]
    [] f = "A_fetch_value" -> (a[1] + 1) % Mod
    [] f = "A_fetch_both" -> (a[1] + a[2] + 1) % Mod
    [] f \in {"A_withdraw", "A_withdraw_later"} -> a[1] - a[2]
    [] f = "A_touch" -> MaxVal
    [] f = "B_fetch_value" -> (a[1] + 1) % Mod
    [] f = "external_pure_function" -> (a[1] + a[2]) % Mod
    [] f = "A_append_to_list" -> ListAppend(a[1], a[2])
    [] f = "E_get_value" -> a[1] % Mod
    [] f = "E_len" -> 0
    [] OTHER -> NoneVal

\* The calls of a pure function that raise instead of returning: withdraw
\* raises ValueError when the amount exceeds the balance.
Raises(f, a) == f \in {"A_withdraw", "A_withdraw_later"} /\ a[2] > a[1]

\* ------------------------------------------------------- ruleset class bodies

Member(n, k, f) == [name |-> n, kind |-> k, fn |-> f]

\* The class statements deriving from Ruleset, in the order the program
\* executes them; each body is the ordered vars(cls) of the class.
RulesetSources ==
  << [cls |-> "RulesA",
      members |-> << Member("get_value", "staticmethod", "A_get_value"),
                     Member("__helper__", "function", "A_helper"),
                     Member("add_value", "staticmethod", "A_add_value"),
                     Member("TAX_RATE", "data", "nofunc"),
                     Member("fetch_value", "staticmethod", "A_fetch_value"),
                     Member("append_to_list", "staticmethod", "A_append_to_list"),
                     Member("fetch_both", "staticmethod", "A_fetch_both"),
                     Member("touch", "staticmethod", "A_touch"),
                     Member("withdraw", "staticmethod", "A_withdraw"),
                     Member("withdraw_later", "staticmethod", "A_withdraw_later") >>],
     [cls |-> "RogueRules",
      members |-> << Member("get_value", "staticmethod", "R_get_value"),
                     Member("rogue_rule", "function", "R_rogue_rule"),
                     Member("other_rule", "function", "R_other_rule") >>],
     [cls |-> "RulesB",
      members |-> << Member("get_value", "staticmethod", "B_get_value"),
                     Member("make", "classmethod", "B_make"),
                     Member("fetch_value", "staticmethod", "B_fetch_value") >>],
     [cls |-> "RoguePrivate",
      members |-> << Member("_helper", "function", "P_helper"),
                     Member("get_value", "staticmethod", "P_get_value") >> ] >>

RulesetNames == {RulesetSources[i].cls : i \in DOMAIN RulesetSources}

\* A ruleset that defines __len__ (a name Ruleset.__init_subclass__ skips):
\* its instances have length 0.
EmptyRulesSource ==
  [cls |-> "EmptyRules",
   members |-> << Member("__len__", "function", "E_len"),
                  Member("get_value", "staticmethod", "E_get_value") >>]

\* The body of each ruleset class statement, by class name.
SourceByName ==
  LET all == {RulesetSources[i] : i \in DOMAIN RulesetSources} \cup {EmptyRulesSource}
  IN [r \in {src.cls : src \in all} |-> CHOOSE src \in all : src.cls = r]

SourceOf(r) == SourceByName[r]

\* callable(value) for a value of a class body (Python 3.11: a staticmethod
\* object, a plain function, a function tagged by side_effect_method and a
\* class are callable; a classmethod object, a property and a PureShellMethod
\* are not).
IsCallable(kind) == kind \in {"function", "staticmethod", "side_effect", "class"}

NoError == [kind |-> "none", a |-> "", b |-> ""]

Err(k, x, y) == [kind |-> k, a |-> x, b |-> y]

\* Mutant of ExcBases: the three errors of a call derive from AttributeError
\* alone.
ExcBasesWithoutBase(cls) ==
  CASE cls \in {"RulesetProviderError", "PureFunctionError", "LiveAttributeError"}
         -> {"AttributeError"}
    [] cls \in {"PureShellError", "AttributeError", "TypeError"} -> {"Exception"}
    [] cls = "Exception" -> {"BaseException"}
    [] cls = "CancelledError" -> {"BaseException"}
    [] OTHER -> {}

\* The bases of each exception class: the class statements of the module and
\* the built-in hierarchy above them.
ExcBases(cls) ==
  CASE cls = "PureShellError" -> {"Exception"}
    [] cls \in {"RulesetProviderError", "PureFunctionError", "LiveAttributeError"}
         -> {"PureShellError", "AttributeError"}
    [] cls \in {"AttributeError", "TypeError", "ValueError", "LookupError"}
         -> {"Exception"}
    [] cls = "IndexError" -> {"LookupError"}
    [] cls = "Exception" -> {"BaseException"}
    [] cls = "CancelledError" -> {"BaseException"}
    [] OTHER -> {}

\* issubclass(cls, k)
RECURSIVE IsSubclass(_, _)
IsSubclass(cls, k) ==
  \/ cls = k
  \/ \E b \in ExcBases(cls) : IsSubclass(b, k)

\* The class of the exception object a raise statement builds: both
\* declaration-time checks raise TypeError, with different messages.
ExcClass(err) ==
  IF err.kind \in {"TypeError:non-static", "TypeError:implemented-method",
                  "TypeError:not-awaitable"}
  THEN "TypeError"
  ELSE err.kind

\* Whether a handler `except k:` catches the raised err.
Catches(k, err) == err # NoError /\ IsSubclass(ExcClass(err), k)

\* Mutant of FirstNonStatic: names with any leading underscore are skipped,
\* as StatefulEntity's check does.
FirstNonStaticSkippingPrivate(members) ==
  LET bad == {i \in DOMAIN members :
                /\ LeadingUnderscores(members[i].name) < 1
                /\ IsCallable(members[i].kind)
                /\ members[i].kind # "staticmethod"}
  IN IF bad = {} THEN 0 ELSE CHOOSE i \in bad : \A j \in bad : i <= j

\* The member the loop of Ruleset.__init_subclass__ raises on: the first, in
\* class-body order, that is callable, not a staticmethod and whose name does
\* not start with "__"; 0 when there is none.
FirstNonStatic(members) ==
  LET bad == {i \in DOMAIN members :
                /\ LeadingUnderscores(members[i].name) < 2
                /\ IsCallable(members[i].kind)
                /\ members[i].kind # "staticmethod"}
  IN IF bad = {} THEN 0 ELSE CHOOSE i \in bad : \A j \in bad : i <= j

\* Ruleset.__init_subclass__: the TypeError it raises, or NoError.
RulesetInitSubclass(src) ==
  LET i == FirstNonStatic(src.members)
  IN IF i = 0 THEN NoError
     ELSE Err("TypeError:non-static", src.members[i].name, src.cls)

\* -------------------------------------------------------- entity class bodies

\* Bound on the number of members of a StatefulEntity class body.
MaxMembers == 2

EntityMemberNames ==
  {"compute", "audit", "_internal_helper", "__custom_dunder__", "_rules",
   "_instance_rules"}

\* What a class body binds a name to: a plain def, a class, the PureShellMethod
\* shell_method returns, a function tagged by side_effect_method, a property,
\* a value that is not callable.
EntityMemberKinds ==
  {"function", "class", "shell_method", "side_effect", "property", "data"}

EntityMembers ==
  {Member(n, k, "nofunc") : n \in EntityMemberNames, k \in EntityMemberKinds}

\* The bodies of the class statements deriving from StatefulEntity: vars(cls)
\* in order, a name bound once.
EntityBodies ==
  {b \in UNION {[1 .. n -> EntityMembers] : n \in 0 .. MaxMembers} :
     \A i, j \in DOMAIN b : b[i].name = b[j].name => i = j}

ProviderSlots == {"_rules", "_instance_rules"}

\* Mutant of SkippedName: only special names and the two slots are skipped,
\* as the comment of the test of _internal_helper expects.
SkippedNameSpecialAndSlots(n) ==
  \/ LeadingUnderscores(n) >= 2
  \/ n \in ProviderSlots

\* The names the loop of StatefulEntity.__init_subclass__ passes over:
\* name.startswith("__") or name.startswith("_") or name in ("_rules",
\* "_instance_rules").
SkippedName(n) ==
  \/ LeadingUnderscores(n) >= 2
  \/ LeadingUnderscores(n) >= 1
  \/ n \in ProviderSlots

\* Mutant of ExemptValue: the _is_side_effect tag is not looked at.
ExemptValueIgnoringTag(kind) ==
  \/ kind = "shell_method"
  \/ kind = "property"

\* The values the loop passes over: a PureShellMethod, a value whose
\* _is_side_effect is true, a property.
ExemptValue(kind) ==
  \/ kind = "shell_method"
  \/ kind = "side_effect"
  \/ kind = "property"

\* Mutant of FirstImplemented: the loop ends at the first exempt value
\* instead of going on to the next member.
FirstImplementedStoppingAtExempt(members) ==
  LET bad == {i \in DOMAIN members :
                /\ ~SkippedName(members[i].name)
                /\ ~ExemptValue(members[i].kind)
                /\ IsCallable(members[i].kind)
                /\ \A j \in 1 .. i - 1 :
                     SkippedName(members[j].name) \/ ~ExemptValue(members[j].kind)}
  IN IF bad = {} THEN 0 ELSE CHOOSE i \in bad : \A j \in bad : i <= j

\* The member the loop of StatefulEntity.__init_subclass__ raises on: the
\* first, in class-body order, whose name is not passed over, whose value is
\* not exempt and is callable; 0 when there is none.
FirstImplemented(members) ==
  LET bad == {i \in DOMAIN members :
                /\ ~SkippedName(members[i].name)
                /\ ~ExemptValue(members[i].kind)
                /\ IsCallable(members[i].kind)}
  IN IF bad = {} THEN 0 ELSE CHOOSE i \in bad : \A j \in bad : i <= j

\* StatefulEntity.__init_subclass__: the TypeError it raises, or NoError.
StatefulInitSubclass(src) ==
  LET i == FirstImplemented(src.members)
  IN IF i = 0 THEN NoError
     ELSE Err("TypeError:implemented-method", src.members[i].name, src.cls)

\* ------------------------------------------------------------------ providers

NoProvider == [kind |-> "none", cls |-> "none"]

InstanceOf(r) == [kind |-> "instance", cls |-> r]

TypeProvider(r) == [kind |-> "type", cls |-> r]

\* hasattr(rules_source, name) for a ruleset class or an instance of it.
HasMember(p, n) ==
  \E i \in DOMAIN SourceOf(p.cls).members : SourceOf(p.cls).members[i].name = n

\* getattr(rules_source, name)
GetMember(p, n) ==
  LET ms == SourceOf(p.cls).members
  IN ms[CHOOSE i \in DOMAIN ms : ms[i].name = n].fn

\* -------------------------------------------------------------------- bindings

NameTarget(n) == [kind |-> "name", ref |-> n]

DirectTarget(f) == [kind |-> "direct", ref |-> f]

\* pure_func=None, the default of shell_method.
NoTarget == [kind |-> "none", ref |-> ""]

\* live_attr_names as the declaration gives it: one str, or a tuple of str.
AsStr(n) == [isStr |-> TRUE, str |-> n, tuple |-> <<>>]

AsTuple(t) == [isStr |-> FALSE, str |-> "", tuple |-> t]

\* The declarations of the bindings of MyEntity (SubEntity inherits them):
\* through the decorator shell_method on a placeholder method, or by building
\* the PureShellMethod in the class body; whether the placeholder was declared
\* with async def; and the number of arguments a caller passes.
Declared ==
  [get_value |-> [via |-> "shell_method", placeholder |-> "get_value",
                  live |-> AsStr("data"), pure_func |-> NoTarget,
                  mutates |-> FALSE, async_decl |-> FALSE, nargs |-> 0],
   add_value |-> [via |-> "shell_method", placeholder |-> "add_value",
                  live |-> AsTuple(<<"bonus", "data">>), pure_func |-> NoTarget,
                  mutates |-> TRUE, async_decl |-> FALSE, nargs |-> 1],
   fetch_value |-> [via |-> "shell_method", placeholder |-> "fetch_value",
                    live |-> AsStr("data"), pure_func |-> NameTarget("fetch_value"),
                    mutates |-> TRUE, async_decl |-> TRUE, nargs |-> 0],
   process |-> [via |-> "PureShellMethod", placeholder |-> "process",
                live |-> AsTuple(<<"data", "bonus">>),
                pure_func |-> DirectTarget("external_pure_function"),
                mutates |-> FALSE, async_decl |-> FALSE, nargs |-> 0],
   append_item |-> [via |-> "shell_method", placeholder |-> "append_item",
                    live |-> AsStr("data"), pure_func |-> NameTarget("append_to_list"),
                    mutates |-> TRUE, async_decl |-> FALSE, nargs |-> 1],
   fetch_both |-> [via |-> "shell_method", placeholder |-> "fetch_both",
                   live |-> AsTuple(<<"data", "bonus">>), pure_func |-> NoTarget,
                   mutates |-> TRUE, async_decl |-> TRUE, nargs |-> 0],
   touch |-> [via |-> "shell_method", placeholder |-> "touch",
              live |-> AsTuple(<<>>), pure_func |-> NoTarget,
              mutates |-> TRUE, async_decl |-> FALSE, nargs |-> 0],
   withdraw |-> [via |-> "shell_method", placeholder |-> "withdraw",
                 live |-> AsStr("data"), pure_func |-> NoTarget,
                 mutates |-> TRUE, async_decl |-> FALSE, nargs |-> 1],
   withdraw_later |-> [via |-> "shell_method", placeholder |-> "withdraw_later",
                       live |-> AsStr("data"), pure_func |-> NoTarget,
                       mutates |-> TRUE, async_decl |-> TRUE, nargs |-> 1]]

\* Mutant of FuncOrName: pure_func is kept as given, None included.
FuncOrNameAsGiven(pure_func, placeholder) == pure_func

\* func_or_name = pure_func or func_placeholder.__name__: None and the empty
\* string are false.
FuncOrName(pure_func, placeholder) ==
  IF pure_func.kind = "none" \/ (pure_func.kind = "name" /\ pure_func.ref = "")
  THEN NameTarget(placeholder)
  ELSE pure_func

\* (live_attr_names,) if isinstance(live_attr_names, str) else live_attr_names
LiveAttrNames(live) == IF live.isStr THEN <<live.str>> ELSE live.tuple

\* PureShellMethod.__init__(func_or_name, live_attr_names, mutates)
PureShellMethodInit(func_or_name, live, mutates) ==
  [target |-> func_or_name, fields |-> LiveAttrNames(live), mutates |-> mutates]

\* shell_method(live_attr_names, pure_func, mutates)(func_placeholder)
ShellMethod(live, pure_func, mutates, placeholder) ==
  PureShellMethodInit(FuncOrName(pure_func, placeholder), live, mutates)

\* The PureShellMethod descriptors the declarations leave in the class:
\* func_or_name, live_attr_names, mutates. The class statement of MyEntity
\* stores them in the class's __dict__ (the variable descriptors), where
\* __get__ and the wrapper read them for the rest of the program.
Bindings ==
  [b \in DOMAIN Declared |->
     LET d == Declared[b]
         m == IF d.via = "shell_method"
              THEN ShellMethod(d.live, d.pure_func, d.mutates, d.placeholder)
              ELSE PureShellMethodInit(d.pure_func, d.live, d.mutates)
     IN [target |-> m.target, fields |-> m.fields, mutates |-> m.mutates,
         async_decl |-> d.async_decl, nargs |-> d.nargs]]

\* The bindings whose first declared field holds a list.
ListBindingNames == {"append_item"}

\* The bindings whose declared fields hold numbers.
\* The binding the application with two concurrent calls invokes.
RaceBindingNames == {"fetch_both"}

\* The bindings whose pure function can raise.
RaisingBindingNames == {"withdraw", "withdraw_later"}

\* The bindings declared with an empty tuple of live attribute names.
EmptyBindingNames == {"touch"}

BindingNames ==
  DOMAIN Bindings \ (ListBindingNames \cup RaceBindingNames \cup RaisingBindingNames
                       \cup EmptyBindingNames)

ArgsOf(b) == [1 .. Bindings[b].nargs -> Values]

VARIABLES
  entDecl,        \* the StatefulEntity class statement just executed, if any
  declPc,         \* index of the next Ruleset class statement to execute
  rulesetClasses, \* the Ruleset subclasses that exist
  declError,      \* what the last executed class statement raised
  ownRules,       \* the _rules entry of each entity class's own __dict__
  descriptors,    \* the PureShellMethod descriptors in the entity class's __dict__
  entities,       \* the StatefulEntity instances
  callers         \* per caller: the bound method it holds and the call it runs

vars == <<entDecl, declPc, rulesetClasses, declError, ownRules, descriptors,
          entities, callers>>


\* --------------------------------------------------------------- state shapes

NoFields == [f \in FieldNames |-> Sentinel]

NoEntity == [created |-> FALSE, cls |-> "none", fields |-> NoFields,
             instRules |-> NoProvider]

NoLast == [b |-> "none", func |-> "nofunc"]

\* No StatefulEntity class statement was just executed.
NoDecl == [pc |-> "none", cls |-> "none", members |-> <<>>, err |-> NoError]

\* A caller's slot. pc: "idle", "bound" (holds the callable __get__ returned),
\* "pending" (holds the coroutine of async_wrapper, not yet started),
\* "suspended" (inside the awaited pure function), "done" (the call ended:
\* ret is what the caller got, err what was raised).
\*   func       actual_func_resolved of the closure
\*   direct     the call was entity.<b>(...) in one expression
\*   args       the caller's arguments
\*   live       live_data_values
\*   invoked    the pure function was called
\*   val        what the pure function returned
\*   before     the entity's fields when the step that ended the call began
\*   last       the binding and function of this caller's previous
\*              successful call
IdleSlot == [pc |-> "idle", e |-> "none", b |-> "none", func |-> "nofunc",
             direct |-> FALSE, args |-> <<>>, live |-> <<>>, invoked |-> FALSE, val |-> NoneVal,
             before |-> NoFields, ret |-> NoneVal, err |-> NoError,
             last |-> NoLast]

\* ----------------------------------------------------------------- resolution

\* getattr(instance.__class__, "_rules"): the class's own entry, else the one
\* it inherits; StatefulEntity itself holds None.
RECURSIVE ClassRules(_)
ClassRules(t) ==
  IF t = "StatefulEntity" THEN "None"
  ELSE IF ownRules[t] # "unset" THEN ownRules[t]
  ELSE ClassRules(Parent(t))

\* Mutant of RulesSource: the class-level rules are consulted first.
RulesSourceClassFirst(ent) ==
  IF ClassRules(ent.cls) # "None" THEN TypeProvider(ClassRules(ent.cls))
  ELSE IF ent.instRules # NoProvider THEN ent.instRules
  ELSE NoProvider

\* Mutant of RulesSource: no fallback to the class-level rules.
RulesSourceInstanceOnly(ent) ==
  IF ent.instRules # NoProvider THEN ent.instRules ELSE NoProvider

\* rules_source of PureShellMethod.__get__: the instance's _instance_rules
\* when not None, else the class's _rules when not None, else None.
RulesSource(ent) ==
  IF ent.instRules # NoProvider THEN ent.instRules
  ELSE IF ClassRules(ent.cls) # "None" THEN TypeProvider(ClassRules(ent.cls))
  ELSE NoProvider

\* Mutant of ResolveTarget: a missing provider is reported as a missing pure
\* function.
ResolveTargetNoProviderCheck(ent, b) ==
  LET t == descriptors[b].target
      src == RulesSource(ent)
  IN IF t.kind = "name"
     THEN IF src # NoProvider /\ HasMember(src, t.ref)
          THEN [func |-> GetMember(src, t.ref), err |-> NoError]
          ELSE [func |-> "nofunc", err |-> Err("PureFunctionError", t.ref, src.cls)]
     ELSE [func |-> t.ref, err |-> NoError]

\* Mutant of ResolveTarget: an override that lacks the name falls through to
\* the class-level rules.
ResolveTargetFallThrough(ent, b) ==
  LET t == descriptors[b].target
      src == RulesSource(ent)
      dflt == TypeProvider(ClassRules(ent.cls))
  IN IF t.kind = "name"
     THEN IF src = NoProvider
          THEN [func |-> "nofunc", err |-> Err("RulesetProviderError", ent.cls, t.ref)]
          ELSE IF HasMember(src, t.ref)
               THEN [func |-> GetMember(src, t.ref), err |-> NoError]
               ELSE IF ClassRules(ent.cls) # "None" /\ HasMember(dflt, t.ref)
                    THEN [func |-> GetMember(dflt, t.ref), err |-> NoError]
                    ELSE [func |-> "nofunc",
                          err |-> Err("PureFunctionError", t.ref, src.cls)]
     ELSE [func |-> t.ref, err |-> NoError]

\* Mutant of ResolveTarget: a provider is required whatever the target is.
ResolveTargetProviderFirst(ent, b) ==
  LET t == descriptors[b].target
      src == RulesSource(ent)
  IN IF src = NoProvider
     THEN [func |-> "nofunc", err |-> Err("RulesetProviderError", ent.cls, t.ref)]
     ELSE IF t.kind = "name"
          THEN IF HasMember(src, t.ref)
               THEN [func |-> GetMember(src, t.ref), err |-> NoError]
               ELSE [func |-> "nofunc",
                     err |-> Err("PureFunctionError", t.ref, src.cls)]
          ELSE [func |-> t.ref, err |-> NoError]

\* The resolution part of PureShellMethod.__get__ for binding b accessed on
\* entity record ent: the function resolved, or the error raised.
ResolveTarget(ent, b) ==
  LET t == descriptors[b].target
      src == RulesSource(ent)
  IN IF t.kind = "name"
     THEN IF src = NoProvider
          THEN [func |-> "nofunc", err |-> Err("RulesetProviderError", ent.cls, t.ref)]
          ELSE IF HasMember(src, t.ref)
               THEN [func |-> GetMember(src, t.ref), err |-> NoError]
               ELSE [func |-> "nofunc", err |-> Err("PureFunctionError", t.ref, src.cls)]
     ELSE [func |-> t.ref, err |-> NoError]

\* ------------------------------------------------------------------ the wrapper

\* Mutant of FirstMissing: getattr's default is taken for a value.
FirstMissingNever(ent, names) == 0

\* The first name of live_attr_names for which getattr(instance, name,
\* _sentinel) is the sentinel; 0 when every attribute is present.
FirstMissing(ent, names) ==
  LET miss == {i \in DOMAIN names : ent.fields[names[i]] = Sentinel}
  IN IF miss = {} THEN 0 ELSE CHOOSE i \in miss : \A j \in miss : i <= j

\* Mutant of LiveData: the values are not read from the instance; each is
\* the empty list the instance started with.
LiveDataNotRead(ent, names) == [i \in DOMAIN names |-> EmptyList]

\* live_data_values
LiveData(ent, names) == [i \in DOMAIN names |-> ent.fields[names[i]]]

\* Mutant of WriteBack: index -1, the last live attribute, is written.
WriteBackLastField(ent, b, val) ==
  [ent EXCEPT !.fields[descriptors[b].fields[Len(descriptors[b].fields)]] = val]

\* setattr(instance, self.live_attr_names[mutating_attr_index], val)
WriteBack(ent, b, val) ==
  [ent EXCEPT !.fields[descriptors[b].fields[1]] = val]

\* Mutant of Complete: the first live attribute is written whether or not the
\* binding mutates.
CompleteAlwaysWrites(slot, ent, val) ==
  [ent |-> [ent EXCEPT !.fields[descriptors[slot.b].fields[1]] = val],
   slot |-> [slot EXCEPT !.pc = "done", !.val = val,
                         !.ret = IF descriptors[slot.b].mutates THEN NoneVal ELSE val,
                         !.before = ent.fields]]

\* The end of a call once the pure function returned val: the write back and
\* None for a mutating binding, val itself otherwise.
Complete(slot, ent, val) ==
  IF descriptors[slot.b].mutates /\ descriptors[slot.b].fields = <<>>
  THEN [ent |-> ent,
        slot |-> [slot EXCEPT !.pc = "done", !.val = val,
                              !.err = Err("IndexError", "", ""),
                              !.before = ent.fields]]
  ELSE [ent |-> IF descriptors[slot.b].mutates THEN WriteBack(ent, slot.b, val) ELSE ent,
        slot |-> [slot EXCEPT !.pc = "done", !.val = val,
                              !.ret = IF descriptors[slot.b].mutates THEN NoneVal ELSE val,
                              !.before = ent.fields]]

\* A call that raises err: nothing is written.
Raise(slot, ent, err) ==
  [ent |-> ent,
   slot |-> [slot EXCEPT !.pc = "done", !.err = err, !.before = ent.fields]]

\* The gather loop of wrapper: LiveAttributeError on the first absent name,
\* else the slot holding live_data_values, the pure function about to be
\* called with them.
Gather(slot, ent) ==
  LET names == descriptors[slot.b].fields
      m == FirstMissing(ent, names)
  IN IF m # 0
     THEN Raise(slot, ent, Err("LiveAttributeError", names[m], ent.cls))
     ELSE [ent |-> ent,
           slot |-> [slot EXCEPT !.live = LiveData(ent, names), !.invoked = TRUE]]

\* Mutant of Finish: a mutating binding writes its first field although the
\* pure function raised.
FinishWritingOnRaise(slot, ent) ==
  LET a == slot.live \o slot.args
  IN IF Raises(slot.func, a)
     THEN [ent |-> IF descriptors[slot.b].mutates
                   THEN WriteBack(ent, slot.b, slot.args[1]) ELSE ent,
           slot |-> Raise(slot, ent, Err("ValueError", "", "")).slot]
     ELSE Complete(slot, ent, Apply(slot.func, a))

\* The end of a call whose pure function was called with the gathered
\* values: what the function raises leaves wrapper (or async_runner) at the
\* call, before the setattr; what it returns is written back or returned.
Finish(slot, ent) ==
  LET a == slot.live \o slot.args
  IN IF Raises(slot.func, a)
     THEN Raise(slot, ent, Err("ValueError", "", ""))
     ELSE Complete(slot, ent, Apply(slot.func, a))

\* Mutant of SyncWrapper: the caller's arguments are passed before the live
\* values.
SyncWrapperArgsFirst(slot, ent) ==
  LET g == Gather(slot, ent)
  IN IF g.slot.pc = "done" THEN g
     ELSE Complete(g.slot, ent, Apply(slot.func, slot.args \o g.slot.live))

\* wrapper(*args) for a synchronous actual_func_resolved: gather, call, then
\* write back or return.
SyncWrapper(slot, ent) ==
  LET g == Gather(slot, ent)
  IN IF g.slot.pc = "done" THEN g
     ELSE Finish(g.slot, ent)

\* Mutant of Bound: the function resolved for the caller's previous call of
\* the same binding is reused.
BoundCached(slot, e, ent, b) ==
  LET r == ResolveTarget(ent, b)
      s == [IdleSlot EXCEPT !.e = e, !.b = b, !.last = slot.last]
  IN IF r.err = NoError
     THEN [s EXCEPT !.pc = "bound",
                    !.func = IF slot.last.b = b THEN slot.last.func ELSE r.func]
     ELSE [s EXCEPT !.pc = "done", !.err = r.err, !.before = ent.fields]

\* What __get__ hands to the caller whose slot is slot: the bound callable,
\* or the raised error.
Bound(slot, e, ent, b) ==
  LET r == ResolveTarget(ent, b)
      s == [IdleSlot EXCEPT !.e = e, !.b = b, !.last = slot.last]
  IN IF r.err = NoError
     THEN [s EXCEPT !.pc = "bound", !.func = r.func]
     ELSE [s EXCEPT !.pc = "done", !.err = r.err, !.before = ent.fields]

\* Mutant of Called: the pure function is resolved again when the bound
\* callable is called.
CalledResolvingLate(slot, ent, args) ==
  LET r == ResolveTarget(ent, slot.b)
      s == [slot EXCEPT !.args = args, !.func = r.func]
  IN IF r.err # NoError THEN Raise(s, ent, r.err)
     ELSE IF IsCoroutineFunction(s.func)
          THEN [ent |-> ent, slot |-> [s EXCEPT !.pc = "pending"]]
          ELSE SyncWrapper(s, ent)

\* Mutant of Called: the path is chosen by how the placeholder was declared
\* (def or async def), not by the resolved function.
CalledByDeclaration(slot, ent, args) ==
  LET s == [slot EXCEPT !.args = args]
  IN IF descriptors[slot.b].async_decl
     THEN [ent |-> ent, slot |-> [s EXCEPT !.pc = "pending"]]
     ELSE SyncWrapper(s, ent)

\* Calling the bound callable with args: the whole wrapper for a synchronous
\* function; for a coroutine function only the creation of async_wrapper's
\* coroutine, which runs nothing until it is awaited.
Called(slot, ent, args) ==
  LET s == [slot EXCEPT !.args = args]
  IN IF IsCoroutineFunction(slot.func)
     THEN [ent |-> ent, slot |-> [s EXCEPT !.pc = "pending"]]
     ELSE SyncWrapper(s, ent)

\* ---------------------------------------------------------------------- actions

Init ==
  /\ entDecl = NoDecl
  /\ declPc = 1
  /\ rulesetClasses = {}
  /\ declError = NoError
  /\ ownRules = [t \in EntityTypes |-> "unset"]
  /\ descriptors = Bindings
  /\ entities = [e \in AllEntities |-> NoEntity]
  /\ callers = [c \in AllCallers |-> IdleSlot]

\* No call and no entity class statement has just ended: the outcome of a
\* call (Return) or of a class statement (EndDeclaration) is taken before the
\* single-threaded application executes its next statement.
Quiet ==
  /\ \A c \in AllCallers : callers[c].pc # "done"
  /\ entDecl = NoDecl

\* The program has executed no ruleset class statement and built no
\* instance yet.
ProgramStart ==
  /\ declPc = 1
  /\ \A e \in Entities : ~entities[e].created

\* class DeclaredEntity(StatefulEntity): <members> -- executed when the
\* program starts, before the ruleset class statements and before any
\* instance exists; the outcome is what __init_subclass__ raised.
DeclareEntityClass(members) ==
  /\ Quiet
  /\ ProgramStart
  /\ LET src == [cls |-> "DeclaredEntity", members |-> members]
     IN entDecl' = [pc |-> "declared", cls |-> src.cls, members |-> members,
                    err |-> StatefulInitSubclass(src)]
  /\ UNCHANGED <<descriptors, declPc, rulesetClasses, declError, ownRules, entities, callers>>

\* The program goes on after the class statement (or after the handler that
\* caught its TypeError).
EndDeclaration ==
  /\ entDecl.pc = "declared"
  /\ entDecl' = NoDecl
  /\ UNCHANGED <<descriptors, declPc, rulesetClasses, declError, ownRules, entities, callers>>

\* class <cls>(Ruleset): ... -- the class exists only if __init_subclass__
\* raised nothing.
DeclareRuleset ==
  /\ Quiet
  /\ declPc <= Len(RulesetSources)
  /\ LET src == RulesetSources[declPc]
         err == RulesetInitSubclass(src)
     IN /\ declError' = err
        /\ rulesetClasses' = IF err = NoError THEN rulesetClasses \cup {src.cls}
                             ELSE rulesetClasses
  /\ declPc' = declPc + 1
  /\ UNCHANGED <<descriptors, entDecl, ownRules, entities, callers>>

\* Mutant of RegisterProvider: the attribute is also set on the entity
\* classes the class derives from.
RegisterProviderOnParents(t, r) ==
  /\ Quiet
  /\ r \in rulesetClasses
  /\ ownRules[t] = "unset"
  /\ ownRules' = [u \in EntityTypes |->
        IF u = t \/ u = Parent(t) THEN r ELSE ownRules[u]]
  /\ UNCHANGED <<descriptors, entDecl, declPc, rulesetClasses, declError, entities, callers>>

\* ruleset_provider(rules_cls)(entity_cls)
RegisterProvider(t, r) ==
  /\ Quiet
  /\ r \in rulesetClasses
  /\ ownRules[t] = "unset"
  /\ ownRules' = [ownRules EXCEPT ![t] = r]
  /\ UNCHANGED <<descriptors, entDecl, declPc, rulesetClasses, declError, entities, callers>>

\* The ruleset instances the application can build.
Instances == {InstanceOf(r) : r \in rulesetClasses}

\* class EmptyRules(Ruleset): ...
DeclareEmptyRules ==
  /\ Quiet
  /\ EmptyRulesSource.cls \notin rulesetClasses
  /\ RulesetInitSubclass(EmptyRulesSource) = NoError
  /\ rulesetClasses' = rulesetClasses \cup {EmptyRulesSource.cls}
  /\ UNCHANGED <<descriptors, entDecl, declPc, declError, ownRules, entities, callers>>

\* bool(p), the test of `if ruleset_instance:`: None is false; an instance
\* whose class defines __len__ is true when its length is not 0; any other
\* instance is true (no ruleset here defines __bool__).
Truthy(p) ==
  IF p = NoProvider THEN FALSE
  ELSE IF HasMember(p, "__len__") THEN Apply(GetMember(p, "__len__"), <<p>>) # 0
  ELSE TRUE

\* The _instance_rules an instance reads after StatefulEntity.__init__: preset
\* is what the subtype's constructor assigned before calling it (NoProvider:
\* nothing, the class attribute None is read). hasattr(self, "_instance_rules")
\* holds for every instance through the class attribute, so the elif branch
\* assigns nothing.
StatefulEntityInit(preset, ri) == IF Truthy(ri) THEN ri ELSE preset

\* StatefulEntity.__init__(initial_state, ruleset_instance) on a new instance
\* of class t; initial_state gives data and bonus (the sentinel: no such key).
Construct(e, t, data, bonus, preset, ri) ==
  /\ Quiet
  /\ ~entities[e].created
  /\ entities' = [entities EXCEPT ![e] =
        [created |-> TRUE, cls |-> t,
         fields |-> [f \in FieldNames |-> IF f = "data" THEN data ELSE bonus],
         instRules |-> StatefulEntityInit(preset, ri)]]
  /\ UNCHANGED <<descriptors, entDecl, declPc, rulesetClasses, declError, ownRules, callers>>

\* Mutant of SetInstanceRules: the attribute is set on the entity's class, so
\* every instance of that class reads it.
SetInstanceRulesOnClass(e, p) ==
  /\ Quiet
  /\ entities[e].created
  /\ entities[e].instRules # p
  /\ entities' = [o \in AllEntities |->
        IF entities[o].created /\ entities[o].cls = entities[e].cls
        THEN [entities[o] EXCEPT !.instRules = p]
        ELSE entities[o]]
  /\ UNCHANGED <<descriptors, entDecl, declPc, rulesetClasses, declError, ownRules, callers>>

\* entity._instance_rules = p
SetInstanceRules(e, p) ==
  /\ Quiet
  /\ entities[e].created
  /\ entities[e].instRules # p
  /\ entities' = [entities EXCEPT ![e].instRules = p]
  /\ UNCHANGED <<descriptors, entDecl, declPc, rulesetClasses, declError, ownRules, callers>>

\* entity.<f> = v, or del entity.<f> (v the sentinel), by the application or
\* a side-effect method.
SetField(e, f, v) ==
  /\ Quiet
  /\ entities[e].created
  /\ entities[e].fields[f] # v
  /\ entities' = [entities EXCEPT ![e].fields[f] = v]
  /\ UNCHANGED <<descriptors, entDecl, declPc, rulesetClasses, declError, ownRules, callers>>

CanAccess(c) == callers[c].pc \in {"idle", "bound"}

\* m = entity.<b>: PureShellMethod.__get__ alone; the caller keeps the result.
Access(c, e, b) ==
  /\ CanAccess(c)
  /\ entities[e].created
  /\ callers' = [callers EXCEPT ![c] = Bound(callers[c], e, entities[e], b)]
  /\ UNCHANGED <<descriptors, entDecl, declPc, rulesetClasses, declError, ownRules, entities>>

\* m(*args) on a bound callable obtained earlier.
CallBound(c, args) ==
  /\ callers[c].pc = "bound"
  /\ LET s == callers[c]
         r == Called(s, entities[s.e], args)
     IN /\ callers' = [callers EXCEPT ![c] = r.slot]
        /\ entities' = [entities EXCEPT ![s.e] = r.ent]
  /\ UNCHANGED <<descriptors, entDecl, declPc, rulesetClasses, declError, ownRules>>

\* Mutant of Invoke: the declared fields are checked before the target is
\* resolved.
InvokeGatheringFirst(c, e, b, args) ==
  /\ CanAccess(c)
  /\ entities[e].created
  /\ LET m == FirstMissing(entities[e], descriptors[b].fields)
         i == [IdleSlot EXCEPT !.e = e, !.b = b, !.last = callers[c].last,
                               !.direct = TRUE]
         s == [Bound(callers[c], e, entities[e], b) EXCEPT !.direct = TRUE]
         r == IF m # 0
              THEN Raise(i, entities[e],
                         Err("LiveAttributeError", descriptors[b].fields[m], entities[e].cls))
              ELSE IF s.pc = "bound" THEN Called(s, entities[e], args)
              ELSE [ent |-> entities[e], slot |-> s]
     IN /\ callers' = [callers EXCEPT ![c] = r.slot]
        /\ entities' = [entities EXCEPT ![e] = r.ent]
  /\ UNCHANGED <<descriptors, entDecl, declPc, rulesetClasses, declError, ownRules>>

\* entity.<b>(*args): __get__ and the call in one expression.
Invoke(c, e, b, args) ==
  /\ CanAccess(c)
  /\ entities[e].created
  /\ LET s == [Bound(callers[c], e, entities[e], b) EXCEPT !.direct = TRUE]
         r == IF s.pc = "bound" THEN Called(s, entities[e], args)
              ELSE [ent |-> entities[e], slot |-> s]
     IN /\ callers' = [callers EXCEPT ![c] = r.slot]
        /\ entities' = [entities EXCEPT ![e] = r.ent]
  /\ UNCHANGED <<descriptors, entDecl, declPc, rulesetClasses, declError, ownRules>>

\* Mutant of StartAwait: a mutating binding writes its first field when the
\* coroutine starts, before the awaited function has returned.
StartAwaitWritingBack(c) ==
  /\ callers[c].pc = "pending"
  /\ LET s == callers[c]
         g == Gather(s, entities[s.e])
     IN /\ callers' = [callers EXCEPT ![c] =
              IF g.slot.pc = "done" THEN g.slot
              ELSE [g.slot EXCEPT !.pc = "suspended"]]
        /\ entities' = [entities EXCEPT ![s.e] =
              IF g.slot.pc # "done" /\ descriptors[s.b].mutates
              THEN WriteBack(entities[s.e], s.b, Apply(s.func, g.slot.live \o s.args))
              ELSE entities[s.e]]
  /\ UNCHANGED <<descriptors, entDecl, declPc, rulesetClasses, declError, ownRules>>

\* Mutant of StartAwait: a coroutine starts only when no other call is
\* suspended on the same entity.
StartAwaitSerialized(c) ==
  /\ callers[c].pc = "pending"
  /\ \A d \in AllCallers \ {c} :
       ~(callers[d].pc = "suspended" /\ callers[d].e = callers[c].e)
  /\ LET g == Gather(callers[c], entities[callers[c].e])
     IN callers' = [callers EXCEPT ![c] =
          IF g.slot.pc = "done" THEN g.slot
          ELSE [g.slot EXCEPT !.pc = "suspended"]]
  /\ UNCHANGED <<descriptors, entDecl, declPc, rulesetClasses, declError, ownRules, entities>>

\* The coroutine of async_wrapper is awaited: wrapper runs (the gather), then
\* async_runner calls the pure function and suspends in it.
StartAwait(c) ==
  /\ callers[c].pc = "pending"
  /\ LET g == Gather(callers[c], entities[callers[c].e])
     IN callers' = [callers EXCEPT ![c] =
          IF g.slot.pc = "done" THEN g.slot
          ELSE [g.slot EXCEPT !.pc = "suspended"]]
  /\ UNCHANGED <<descriptors, entDecl, declPc, rulesetClasses, declError, ownRules, entities>>

\* Mutant of Resume: async_runner returns the awaited value also for a
\* mutating binding.
ResumeReturningValue(c) ==
  /\ callers[c].pc = "suspended"
  /\ LET s == callers[c]
         r == Complete(s, entities[s.e], Apply(s.func, s.live \o s.args))
     IN /\ callers' = [callers EXCEPT ![c] = [r.slot EXCEPT !.ret = r.slot.val]]
        /\ entities' = [entities EXCEPT ![s.e] = r.ent]
  /\ UNCHANGED <<descriptors, entDecl, declPc, rulesetClasses, declError, ownRules>>

\* Mutant of Resume: the function is applied to the values the fields hold
\* when it returns, not to the values gathered before the suspension.
ResumeRereading(c) ==
  /\ callers[c].pc = "suspended"
  /\ LET s == callers[c]
         now == LiveData(entities[s.e], descriptors[s.b].fields)
         r == Complete(s, entities[s.e], Apply(s.func, now \o s.args))
     IN /\ callers' = [callers EXCEPT ![c] = r.slot]
        /\ entities' = [entities EXCEPT ![s.e] = r.ent]
  /\ UNCHANGED <<descriptors, entDecl, declPc, rulesetClasses, declError, ownRules>>

\* The awaited pure function returns: async_runner writes back or returns.
Resume(c) ==
  /\ callers[c].pc = "suspended"
  /\ LET s == callers[c]
         r == Finish(s, entities[s.e])
     IN /\ callers' = [callers EXCEPT ![c] = r.slot]
        /\ entities' = [entities EXCEPT ![s.e] = r.ent]
  /\ UNCHANGED <<descriptors, entDecl, declPc, rulesetClasses, declError, ownRules>>

\* Mutant of Cancel: the write back is done although the await raised.
CancelAfterWriteBack(c) ==
  /\ callers[c].pc = "suspended"
  /\ LET s == callers[c]
         ent == IF descriptors[s.b].mutates
                THEN WriteBack(entities[s.e], s.b, Apply(s.func, s.live \o s.args))
                ELSE entities[s.e]
     IN /\ callers' = [callers EXCEPT ![c] =
              Raise(s, entities[s.e], Err("CancelledError", "", "")).slot]
        /\ entities' = [entities EXCEPT ![s.e] = ent]
  /\ UNCHANGED <<descriptors, entDecl, declPc, rulesetClasses, declError, ownRules>>

\* The event loop cancels the suspended call: CancelledError is thrown into
\* async_runner at its await.
Cancel(c) ==
  /\ callers[c].pc = "suspended"
  /\ callers' = [callers EXCEPT ![c] =
        Raise(callers[c], entities[callers[c].e], Err("CancelledError", "", "")).slot]
  /\ UNCHANGED <<descriptors, entDecl, declPc, rulesetClasses, declError, ownRules, entities>>

\* The caller of a binding declared with async def wrote `await
\* entity.<b>(...)`: when the call handed back a plain value instead of a
\* coroutine, the await expression raises TypeError and yields nothing.
AwaitValue(c) ==
  /\ callers[c].pc = "done"
  /\ callers[c].err = NoError
  /\ callers[c].invoked
  /\ descriptors[callers[c].b].async_decl
  /\ ~IsCoroutineFunction(callers[c].func)
  /\ callers' = [callers EXCEPT ![c].err = Err("TypeError:not-awaitable", "", "")]
  /\ UNCHANGED <<descriptors, entDecl, declPc, rulesetClasses, declError, ownRules, entities>>

\* The caller takes what the call returned or raised and goes on.
Return(c) ==
  /\ callers[c].pc = "done"
  /\ callers' = [callers EXCEPT ![c] =
        [IdleSlot EXCEPT !.last =
           IF callers[c].err = NoError
           THEN [b |-> callers[c].b, func |-> callers[c].func]
           ELSE callers[c].last]]
  /\ UNCHANGED <<descriptors, entDecl, declPc, rulesetClasses, declError, ownRules, entities>>

Next ==
  \/ Quiet /\ ProgramStart /\ \E members \in EntityBodies : DeclareEntityClass(members)
  \/ EndDeclaration
  \/ DeclareRuleset
  \* the application decorates MyEntity; SubEntity inherits its default
  \/ \E r \in RulesetNames : RegisterProvider("MyEntity", r)
  \/ \E e \in Entities, t \in EntityTypes, data \in Values \cup {Sentinel},
        bonus \in Values \cup {Sentinel}, ri \in Instances \cup {NoProvider} :
       Construct(e, t, data, bonus, NoProvider, ri)
  \/ \E e \in Entities, p \in Instances \cup {NoProvider} : SetInstanceRules(e, p)
  \/ \E e \in Entities, f \in FieldNames, v \in Values \cup {Sentinel} :
       SetField(e, f, v)
  \/ \E c \in Callers, e \in Entities, b \in BindingNames : Access(c, e, b)
  \/ \E c \in Callers, b \in BindingNames : \E args \in ArgsOf(b) :
       callers[c].b = b /\ CallBound(c, args)
  \/ \E c \in Callers, e \in Entities, b \in BindingNames : \E args \in ArgsOf(b) :
       Invoke(c, e, b, args)
  \/ \E c \in Callers : StartAwait(c)
  \/ \E c \in Callers : Resume(c)
  \/ \E c \in Callers : Cancel(c)
  \/ \E c \in Callers : AwaitValue(c)
  \/ \E c \in Callers : Return(c)

Spec == Init /\ [][Next]_vars

\* ------------------------------------------------- an entity whose field is a list

RECURSIVE ListLen(_)
ListLen(l) == IF l <= 0 THEN 0 ELSE 1 + ListLen(l \div ItemBase)

\* The application of test_sync_mutation_shell_method: the rulesets are
\* declared and registered, an entity is built with a list in its field data
\* (empty or of one item), and callers append items to it through the
\* binding append_item, in one expression or through a bound callable.
NextCart ==
  \/ DeclareRuleset
  \/ \E t \in EntityTypes, r \in RulesetNames : RegisterProvider(t, r)
  \/ \E e \in Entities, t \in EntityTypes, x \in Items,
        ri \in Instances \cup {NoProvider} :
       \/ Construct(e, t, EmptyList, Sentinel, NoProvider, ri)
       \/ Construct(e, t, ListAppend(EmptyList, x), Sentinel, NoProvider, ri)
  \/ \E e \in Entities, p \in Instances \cup {NoProvider} : SetInstanceRules(e, p)
  \/ \E c \in Callers, e \in Entities, b \in ListBindingNames : Access(c, e, b)
  \/ \E c \in Callers, x \in Items :
       /\ callers[c].b \in ListBindingNames
       /\ ListLen(entities[callers[c].e].fields["data"]) < MaxLen
       /\ CallBound(c, <<x>>)
  \/ \E c \in Callers, e \in Entities, b \in ListBindingNames, x \in Items :
       /\ ListLen(entities[e].fields["data"]) < MaxLen
       /\ Invoke(c, e, b, <<x>>)
  \/ \E c \in Callers : Return(c)

SpecCart == Init /\ [][NextCart]_vars

\* --------------------------------------------------------------- two entities

\* The application of test_dynamic_ruleset_injection: two entities are
\* built, with or without a ruleset instance; the instance-level rules of
\* either are set and reset; callers call get_value on either.
NextPair ==
  \/ DeclareRuleset
  \/ \E t \in EntityTypes, r \in RulesetNames : RegisterProvider(t, r)
  \/ \E e \in AllEntities, t \in EntityTypes, data \in Values,
        ri \in Instances \cup {NoProvider} :
       Construct(e, t, data, Sentinel, NoProvider, ri)
  \/ \E e \in AllEntities, p \in Instances \cup {NoProvider} : SetInstanceRules(e, p)
  \/ \E c \in Callers, e \in AllEntities : Invoke(c, e, "get_value", <<>>)
  \/ \E c \in Callers : Return(c)

SpecPair == Init /\ [][NextPair]_vars

\* The application of test_stateful_entity_default_init_instance_rules: the
\* entities are built by subtypes whose constructor may assign
\* _instance_rules before calling the base constructor, with or without a
\* ruleset instance; callers call get_value on them.
NextInit ==
  \/ DeclareRuleset
  \/ DeclareEmptyRules
  \/ \E t \in EntityTypes, r \in RulesetNames : RegisterProvider(t, r)
  \/ \E e \in AllEntities, t \in EntityTypes, data \in Values,
        preset \in Instances \cup {NoProvider}, ri \in Instances \cup {NoProvider} :
       Construct(e, t, data, Sentinel, preset, ri)
  \/ \E c \in Callers, e \in AllEntities : Invoke(c, e, "get_value", <<>>)
  \/ \E c \in Callers : Return(c)

SpecInit == Init /\ [][NextInit]_vars

\* The application with two tasks on one event loop: each invokes the
\* asynchronous mutating binding fetch_both on the same entity; the loop runs
\* a task until its pure function suspends or returns.
NextRace ==
  \/ DeclareRuleset
  \/ \E r \in RulesetNames : RegisterProvider("MyEntity", r)
  \/ \E e \in Entities, data \in Values, bonus \in Values :
       Construct(e, "MyEntity", data, bonus, NoProvider, NoProvider)
  \/ \E c \in AllCallers, e \in Entities, b \in RaceBindingNames : Invoke(c, e, b, <<>>)
  \/ \E c \in AllCallers : StartAwait(c)
  \/ \E c \in AllCallers : Resume(c)
  \/ \E c \in AllCallers : Return(c)

SpecRace == Init /\ [][NextRace]_vars

\* The application of an account: the balance is the field data; withdraw
\* and withdraw_later are called with an amount that may exceed it.
NextRaise ==
  \/ DeclareRuleset
  \/ \E r \in RulesetNames : RegisterProvider("MyEntity", r)
  \/ \E e \in Entities, data \in Values :
       Construct(e, "MyEntity", data, Sentinel, NoProvider, NoProvider)
  \/ \E c \in AllCallers, e \in Entities, b \in RaisingBindingNames :
       \E args \in ArgsOf(b) : Invoke(c, e, b, args)
  \/ \E c \in AllCallers : StartAwait(c)
  \/ \E c \in AllCallers : Resume(c)
  \/ \E c \in AllCallers : Return(c)

SpecRaise == Init /\ [][NextRaise]_vars

\* The application with a binding declared over no field: touch, and
\* add_value over two fields, are invoked on an entity.
NextEmpty ==
  \/ DeclareRuleset
  \/ \E r \in RulesetNames : RegisterProvider("MyEntity", r)
  \/ \E e \in Entities, data \in Values \cup {Sentinel}, bonus \in Values :
       Construct(e, "MyEntity", data, bonus, NoProvider, NoProvider)
  \/ \E c \in Callers, e \in Entities, b \in EmptyBindingNames \cup {"add_value"} :
       \E args \in ArgsOf(b) : Invoke(c, e, b, args)
  \/ \E c \in Callers : Return(c)

SpecEmpty == Init /\ [][NextEmpty]_vars


\* ------------------------------------------------------- vocabulary of the claims

NameBased(b) == Bindings[b].target.kind = "name"

TargetName(b) == Bindings[b].target.ref

ResolutionErrors == {"RulesetProviderError", "PureFunctionError"}

\* The tier rule as the specification words it: the instance-level override
\* if non-null, else the type-level default, else nothing.
TierProvider(ent) ==
  IF ent.instRules # NoProvider THEN ent.instRules
  ELSE IF ClassRules(ent.cls) # "None" THEN TypeProvider(ClassRules(ent.cls))
  ELSE NoProvider

\* This step, caller c obtained binding callers'[c].b from entity
\* callers'[c].e anew (alone, or as the first half of an invoke).
FreshStep(c) ==
  /\ callers[c].pc \in {"idle", "bound"}
  /\ callers'[c] # callers[c]
  /\ \/ callers'[c].pc = "bound"
     \/ callers'[c].direct
     \/ callers'[c].pc = "done" /\ callers'[c].func = "nofunc"

\* This step, caller c called a bound callable it had obtained earlier.
StoredCallStep(c) ==
  /\ callers[c].pc = "bound"
  /\ callers'[c].pc \in {"pending", "done"}
  /\ ~callers'[c].direct
  /\ callers'[c].func # "nofunc"

\* C1: when the entity carries a non-null instance-level provider P on which
\* the binding's name is present, obtaining the binding resolves to P's
\* function and the invoke runs that function, whatever the type-level default
\* defines under the same name.
C1_OverrideWins ==
  [][\A c \in Callers :
       LET s == callers'[c]
           P == entities[s.e].instRules
           n == TargetName(s.b)
       IN (FreshStep(c) /\ NameBased(s.b) /\ P # NoProvider /\ HasMember(P, n))
          => /\ s.func = GetMember(P, n)
             /\ s.err.kind \notin ResolutionErrors
             /\ (s.pc = "done" /\ s.invoked)
                  => s.val = Apply(GetMember(P, n), s.live \o s.args)]_vars

\* C1 witness: an invoke dispatched to the override's function while the
\* type-level default defines the same name with a different function.
C1_Witness ==
  \E c \in Callers :
    LET s == callers[c]
        ent == entities[s.e]
    IN /\ s.pc = "done" /\ s.direct /\ s.invoked /\ s.err = NoError
       /\ NameBased(s.b)
       /\ ent.instRules # NoProvider
       /\ s.func = GetMember(ent.instRules, TargetName(s.b))
       /\ ClassRules(ent.cls) # "None"
       /\ HasMember(TypeProvider(ClassRules(ent.cls)), TargetName(s.b))
       /\ GetMember(TypeProvider(ClassRules(ent.cls)), TargetName(s.b)) # s.func
       /\ s.ret # Apply(GetMember(TypeProvider(ClassRules(ent.cls)), TargetName(s.b)),
                        s.live \o s.args)


\* The declared fields of binding b that are absent in the field record fs.
AbsentFields(b, fs) ==
  {Bindings[b].fields[i] : i \in {j \in DOMAIN Bindings[b].fields :
                                     fs[Bindings[b].fields[j]] = Sentinel}}

\* C2: a successful call of a mutating binding gives the caller None, leaves
\* the pure function's return value in the first declared field and leaves
\* every other field as it was.
C2_MutatingFrame ==
  \A c \in Callers :
    LET s == callers[c]
    IN (s.pc = "done" /\ s.err = NoError /\ Bindings[s.b].mutates)
       => /\ s.ret = NoneVal
          /\ s.val = Apply(s.func, s.live \o s.args)
          /\ entities[s.e].fields[Bindings[s.b].fields[1]] = s.val
          /\ \A f \in FieldNames \ {Bindings[s.b].fields[1]} :
               entities[s.e].fields[f] = s.before[f]

\* C2 witness: a mutating call over two fields ended, its return value
\* differing from None, from the old first field and from the other field.
C2_Witness ==
  \E c \in Callers :
    LET s == callers[c]
    IN /\ s.pc = "done" /\ s.err = NoError /\ Bindings[s.b].mutates
       /\ Len(Bindings[s.b].fields) = 2
       /\ s.val # s.before[Bindings[s.b].fields[1]]
       /\ s.val # s.before[Bindings[s.b].fields[2]]
       /\ entities[s.e].fields[Bindings[s.b].fields[1]] = s.val

\* C3: a successful call of a non-mutating binding gives the caller exactly
\* the pure function's return value and writes no field.
C3_NonMutatingFrame ==
  \A c \in Callers :
    LET s == callers[c]
    IN (s.pc = "done" /\ s.err = NoError /\ ~Bindings[s.b].mutates)
       => /\ s.val = Apply(s.func, s.live \o s.args)
          /\ s.ret = s.val
          /\ entities[s.e].fields = s.before

\* C3 witness: a non-mutating call returned a value that differs from the
\* first declared field.
C3_Witness ==
  \E c \in Callers :
    LET s == callers[c]
    IN /\ s.pc = "done" /\ s.err = NoError /\ ~Bindings[s.b].mutates
       /\ s.invoked
       /\ s.ret # NoneVal
       /\ s.ret # s.before[Bindings[s.b].fields[1]]

\* C4: obtaining a name-based binding from an entity with no instance-level
\* provider and no type-level default raises RulesetProviderError (naming the
\* entity's class and the function name); no function is resolved or run, for
\* bindings declared with def and with async def alike.
C4_MissingProvider ==
  [][\A c \in Callers :
       LET s == callers'[c]
           ent == entities[s.e]
       IN (FreshStep(c) /\ NameBased(s.b) /\ ent.instRules = NoProvider
             /\ ClassRules(ent.cls) = "None")
          => /\ s.pc = "done"
             /\ s.err = Err("RulesetProviderError", ent.cls, TargetName(s.b))
             /\ s.func = "nofunc"
             /\ ~s.invoked
             /\ entities' = entities]_vars

\* C4 witness: a binding declared with async def failed with
\* RulesetProviderError on an entity without provider at either tier.
C4_Witness ==
  \E c \in Callers :
    LET s == callers[c]
    IN /\ s.pc = "done" /\ s.err.kind = "RulesetProviderError"
       /\ Bindings[s.b].async_decl
       /\ entities[s.e].instRules = NoProvider
       /\ ClassRules(entities[s.e].cls) = "None"

\* C5: when the provider the tier rule selects lacks the requested name,
\* obtaining the binding raises PureFunctionError naming the function and that
\* provider; an override lacking the name never falls through to the default.
C5_MissingPureFunction ==
  [][\A c \in Callers :
       LET s == callers'[c]
           P == TierProvider(entities[s.e])
       IN (FreshStep(c) /\ NameBased(s.b) /\ P # NoProvider
             /\ ~HasMember(P, TargetName(s.b)))
          => /\ s.pc = "done"
             /\ s.err = Err("PureFunctionError", TargetName(s.b), P.cls)
             /\ s.func = "nofunc"
             /\ ~s.invoked
             /\ entities' = entities]_vars

\* C5 witness: PureFunctionError on an entity whose override lacks the name
\* while its type-level default defines it.
C5_Witness ==
  \E c \in Callers :
    LET s == callers[c]
        ent == entities[s.e]
    IN /\ s.pc = "done" /\ s.err.kind = "PureFunctionError"
       /\ ent.instRules # NoProvider
       /\ ~HasMember(ent.instRules, TargetName(s.b))
       /\ ClassRules(ent.cls) # "None"
       /\ HasMember(TypeProvider(ClassRules(ent.cls)), TargetName(s.b))

\* C6: the pure function is only ever invoked with every declared field
\* present when gathered; a call whose target resolved and that found a
\* declared field absent ends with LiveAttributeError naming an absent
\* declared field and the entity's class, the function not invoked and no
\* field written.
C6_MissingLiveAttribute ==
  \A c \in Callers :
    LET s == callers[c]
    IN /\ s.invoked
         => /\ Len(s.live) = Len(Bindings[s.b].fields)
            /\ \A i \in DOMAIN s.live : s.live[i] # Sentinel
       /\ (s.pc = "done" /\ s.func # "nofunc" /\ ~s.invoked)
         => /\ s.err.kind = "LiveAttributeError"
            /\ s.err.a \in AbsentFields(s.b, s.before)
            /\ s.err.b = entities[s.e].cls
            /\ entities[s.e].fields = s.before

\* C6 witness: a call over two declared fields, the first present and the
\* second absent, ended with LiveAttributeError naming the second.
C6_Witness ==
  \E c \in Callers :
    LET s == callers[c]
    IN /\ s.pc = "done" /\ s.err.kind = "LiveAttributeError"
       /\ Len(Bindings[s.b].fields) = 2
       /\ s.before[Bindings[s.b].fields[1]] # Sentinel
       /\ s.err.a = Bindings[s.b].fields[2]
       /\ ~s.invoked


\* C7: resolution is never cached across invokes: obtaining a name-based
\* binding anew after an earlier successful call of the same binding resolves
\* to the function of the provider the tier rule selects now, whatever the
\* earlier call dispatched to; the step changes no type-level default.
C7_FreshResolution ==
  [][\A c \in Callers :
       LET s == callers'[c]
           P == TierProvider(entities[s.e])
           n == TargetName(s.b)
       IN (FreshStep(c) /\ NameBased(s.b) /\ callers[c].last.b = s.b
             /\ P # NoProvider /\ HasMember(P, n))
          => /\ s.func = GetMember(P, n)
             /\ (s.pc = "done" /\ s.invoked)
                  => s.val = Apply(GetMember(P, n), s.live \o s.args)
             /\ ownRules' = ownRules]_vars

\* C7 witness: the second of two invokes of one binding dispatched to the
\* function of the instance-level override now set, the first having
\* dispatched to another function.
C7_Witness ==
  \E c \in Callers :
    LET s == callers[c]
        ent == entities[s.e]
    IN /\ s.pc = "done" /\ s.direct /\ s.invoked /\ s.err = NoError
       /\ NameBased(s.b)
       /\ s.last.b = s.b
       /\ s.last.func # s.func
       /\ ent.instRules # NoProvider
       /\ s.func = GetMember(ent.instRules, TargetName(s.b))

C9_NullOverrideUsesDefault ==
  [][\A c \in Callers :
       LET s == callers'[c]
           ent == entities[s.e]
           D == TypeProvider(ClassRules(ent.cls))
           n == TargetName(s.b)
       IN (FreshStep(c) /\ NameBased(s.b) /\ ent.instRules = NoProvider
             /\ ClassRules(ent.cls) # "None")
          => IF HasMember(D, n)
             THEN /\ s.func = GetMember(D, n)
                  /\ s.err.kind \notin ResolutionErrors
                  /\ (s.pc = "done" /\ s.invoked)
                       => s.val = Apply(GetMember(D, n), s.live \o s.args)
             ELSE /\ s.pc = "done"
                  /\ s.err = Err("PureFunctionError", n, D.cls)]_vars

\* C9 witness: after a call that an instance-level override served, the
\* override was reset to None and the next invoke of the same binding ran the
\* type-level default's function.
C9_Witness ==
  \E c \in Callers :
    LET s == callers[c]
        ent == entities[s.e]
    IN /\ s.pc = "done" /\ s.direct /\ s.invoked /\ s.err = NoError
       /\ NameBased(s.b)
       /\ ent.cls = "MyEntity"
       /\ ent.instRules = NoProvider
       /\ ownRules["MyEntity"] # "unset"
       /\ s.func = GetMember(TypeProvider(ownRules["MyEntity"]), TargetName(s.b))
       /\ s.last.b = s.b
       /\ s.last.func # s.func

\* A class body with a member the Ruleset contract forbids: a callable that
\* is not a staticmethod, under a name that is not special.
Offending(src) ==
  {src.members[i].name : i \in {j \in DOMAIN src.members :
      /\ src.members[j].kind = "function"
      /\ LeadingUnderscores(src.members[j].name) < 2}}

FunctionsOf(src) == {src.members[i].fn : i \in DOMAIN src.members}

LogicBearing(m) == m.kind \in {"function", "class"}

\* The members of the executed class body that satisfy P, by name.
DeclaredNames(P(_)) ==
  {entDecl.members[i].name : i \in {j \in DOMAIN entDecl.members : P(entDecl.members[j])}}

\* Neither a special name nor one of the two provider slots.
OrdinaryName(n) == LeadingUnderscores(n) < 2 /\ n \notin ProviderSlots

UnexemptedOrdinary(m) == OrdinaryName(m.name) /\ LogicBearing(m)

UnexemptedPublic(m) == LeadingUnderscores(m.name) = 0 /\ LogicBearing(m)

UnauthorizedLogic(names) ==
  /\ entDecl.err.kind = "TypeError:implemented-method"
  /\ entDecl.err.a \in names
  /\ entDecl.err.b = entDecl.cls

\* C11 as claimed: a StatefulEntity class statement whose body has a callable
\* member that is not special-named, not a provider slot and carries none of
\* the three exemptions fails with an error naming such a member and the class.
C11_UnexemptedRejected ==
  (entDecl.pc = "declared" /\ DeclaredNames(UnexemptedOrdinary) # {})
    => UnauthorizedLogic(DeclaredNames(UnexemptedOrdinary))

\* C11 amended: a StatefulEntity class statement whose body has a callable
\* member whose name does not start with an underscore and that carries none
\* of the three exemptions fails with a TypeError naming such a member and the
\* class.
C11_PublicUnexemptedRejected ==
  (entDecl.pc = "declared" /\ DeclaredNames(UnexemptedPublic) # {})
    => UnauthorizedLogic(DeclaredNames(UnexemptedPublic))

\* C11 witness: a body with a property followed by a plain method was
\* rejected with the error naming the plain method.
C11_Witness ==
  /\ entDecl.pc = "declared"
  /\ Len(entDecl.members) = 2
  /\ entDecl.members[1] = Member("audit", "property", "nofunc")
  /\ entDecl.members[2] = Member("compute", "function", "nofunc")
  /\ entDecl.err = Err("TypeError:implemented-method", "compute", entDecl.cls)

\* A member the StatefulEntity contract permits.
Permitted(m) ==
  \/ m.kind \in {"shell_method", "side_effect", "property", "data"}
  \/ m.name \in ProviderSlots
  \/ LeadingUnderscores(m.name) >= 2

\* C12: a StatefulEntity class statement whose members are only bindings,
\* side-effect-tagged functions, properties, the two provider slots,
\* special-named members and non-callable data succeeds, whatever their
\* number and combination.
C12_PermittedAccepted ==
  (entDecl.pc = "declared" /\ \A i \in DOMAIN entDecl.members : Permitted(entDecl.members[i]))
    => entDecl.err = NoError

\* C12 witness: a body holding a side-effect-tagged function under a public
\* name and a class in the _rules slot was accepted.
C12_Witness ==
  /\ entDecl.pc = "declared"
  /\ entDecl.err = NoError
  /\ \E i, j \in DOMAIN entDecl.members :
       /\ entDecl.members[i] = Member("compute", "side_effect", "nofunc")
       /\ entDecl.members[j] = Member("_rules", "class", "nofunc")

\* A plain method under a name with exactly one leading underscore.
InternalHelper(m) ==
  m.kind = "function" /\ LeadingUnderscores(m.name) = 1 /\ m.name \notin ProviderSlots

\* C13: the check passes over a callable member whose name starts with a
\* single underscore: the error never names such a member, and a body whose
\* other members are permitted is accepted with a plain method named like
\* _internal_helper in it.
C13_SingleUnderscoreSkipped ==
  entDecl.pc = "declared"
    => /\ entDecl.err # NoError => LeadingUnderscores(entDecl.err.a) = 0
       /\ (/\ DeclaredNames(InternalHelper) # {}
           /\ \A i \in DOMAIN entDecl.members :
                InternalHelper(entDecl.members[i]) \/ Permitted(entDecl.members[i]))
          => entDecl.err = NoError

\* C13 witness: a body with the plain method _internal_helper and a binding
\* was accepted.
C13_Witness ==
  /\ entDecl.pc = "declared"
  /\ entDecl.err = NoError
  /\ \E i, j \in DOMAIN entDecl.members :
       /\ entDecl.members[i] = Member("_internal_helper", "function", "nofunc")
       /\ entDecl.members[j] = Member("compute", "shell_method", "nofunc")


\* The synchronous pure function that computes what coroutine function f
\* computes.
SyncTwin(f) == IF f = "A_fetch_value" THEN "B_fetch_value" ELSE "nofunc"

\* What the call of slot s would have done on entity record ent had the
\* binding been bound to the synchronous function g.
SyncOutcome(s, ent, g) ==
  SyncWrapper([s EXCEPT !.func = g, !.live = <<>>, !.invoked = FALSE], ent)

C15_NoWriteBeforeCompletion ==
  [][\A c \in Callers :
       LET s == callers[c]
           t == callers'[c]
       IN /\ (s.pc = "suspended" /\ t.pc = "done" /\ t.err.kind = "CancelledError")
            => entities' = entities
          /\ (s.pc = "pending" /\ t.pc = "suspended") => entities' = entities
          /\ (t # s /\ entities' # entities)
            => /\ t.pc = "done" /\ t.err = NoError /\ t.invoked
               /\ Bindings[t.b].mutates
               /\ t.val = Apply(t.func, t.live \o t.args)
               /\ entities' = [entities EXCEPT
                     ![t.e].fields[Bindings[t.b].fields[1]] = t.val]]_vars

\* C15 witness: a suspended mutating call was cancelled; the value its pure
\* function would have returned differs from the first declared field, which
\* is as it was.
C15_Witness ==
  \E c \in Callers :
    LET s == callers[c]
        f == Bindings[s.b].fields[1]
    IN /\ s.pc = "done" /\ s.err.kind = "CancelledError"
       /\ s.invoked
       /\ Bindings[s.b].mutates
       /\ IsCoroutineFunction(s.func)
       /\ entities[s.e].fields = s.before
       /\ entities[s.e].fields[f] # Sentinel
       /\ Apply(s.func, s.live \o s.args) # entities[s.e].fields[f]


\* The Python list a number stands for.
RECURSIVE Decode(_)
Decode(l) == IF l <= 0 THEN <<>> ELSE Append(Decode(l \div ItemBase), l % ItemBase)

\* C16: every successful call of an append-style binding reads the field as
\* it is when the call is made, gives the caller None and leaves in the field
\* the list it read with the caller's item appended; so n calls in sequence
\* leave the n items after the initial ones in call order.
C16_AppendsInCallOrder ==
  [][\A c \in Callers :
       LET s == callers[c]
           t == callers'[c]
           f == Bindings[t.b].fields[1]
       IN (/\ t # s
           /\ t.pc = "done" /\ t.err = NoError
           /\ t.b \in ListBindingNames)
          => /\ t.live = <<entities[t.e].fields[f]>>
             /\ t.ret = NoneVal
             /\ Decode(entities'[t.e].fields[f])
                  = Append(Decode(entities[t.e].fields[f]), t.args[1])]_vars

\* C16 witness: the second of two append calls on an entity built with the
\* empty list ended; the field holds the two different items, the item of
\* the first call first.
C16_Witness ==
  \E c \in Callers :
    LET s == callers[c]
    IN /\ s.pc = "done" /\ s.err = NoError /\ s.ret = NoneVal
       /\ s.b \in ListBindingNames
       /\ s.last.b = s.b
       /\ s.args = <<1>>
       /\ Decode(s.before["data"]) = <<2>>
       /\ Decode(entities[s.e].fields["data"]) = <<2, 1>>


\* The five failure kinds, as the kind tags of the model, and the three a
\* call raises.
CallFailureKinds == {"RulesetProviderError", "PureFunctionError", "LiveAttributeError"}

DeclarationFailureKinds == {"TypeError:non-static", "TypeError:implemented-method"}

FailureKinds == CallFailureKinds \cup DeclarationFailureKinds

\* The failures of the five kinds that were raised and not yet handled.
Raised ==
  {e \in {callers[c].err : c \in Callers} \cup {declError, entDecl.err} :
     e.kind \in FailureKinds}

\* The class a caller names to catch failures of kind k alone.
HandlerClass(k) == ExcClass(Err(k, "", ""))

\* C17 as claimed: every failure of the five kinds is caught by a handler
\* for the common base PureShellError, and by the handler of no other kind.
C17_CommonBaseAllFive ==
  \A e \in Raised :
    /\ Catches("PureShellError", e)
    /\ \A k \in FailureKinds \ {e.kind} : ~Catches(HandlerClass(k), e)

\* C17 amended: the three failures of a call are of pairwise distinct
\* classes deriving from PureShellError (and from AttributeError): a handler
\* for the base catches each, a handler for one catches no other. The two
\* declaration-time failures are both plain TypeErrors: no handler for
\* PureShellError or for a call failure catches them, and a handler for
\* TypeError catches both.
C17_CallErrorsShareBase ==
  \A e \in Raised :
    /\ e.kind \in CallFailureKinds
         => /\ Catches("PureShellError", e)
            /\ Catches("AttributeError", e)
            /\ \A k \in FailureKinds \ {e.kind} : ~Catches(HandlerClass(k), e)
    /\ e.kind \in DeclarationFailureKinds
         => /\ ExcClass(e) = "TypeError"
            /\ ~Catches("PureShellError", e)
            /\ \A k \in CallFailureKinds : ~Catches(HandlerClass(k), e)
            /\ \A k \in DeclarationFailureKinds : Catches(HandlerClass(k), e)

\* C17 witness: a call failed with LiveAttributeError while the last ruleset
\* class statement had raised the non-static TypeError.
C17_Witness ==
  /\ declError.kind = "TypeError:non-static"
  /\ \E c \in Callers : callers[c].err.kind = "LiveAttributeError"


\* C18: obtaining a binding whose target is a function resolves to exactly
\* that function, whatever the entity's instance-level provider and its
\* class's type-level default are; the access never fails with
\* RulesetProviderError or PureFunctionError, and the call runs that function.
C18_DirectTargetDispatch ==
  [][\A c \in Callers :
       LET s == callers'[c]
       IN (FreshStep(c) /\ ~NameBased(s.b))
          => /\ s.func = Bindings[s.b].target.ref
             /\ s.err.kind \notin ResolutionErrors
             /\ (s.pc = "done" /\ s.invoked)
                  => s.val = Apply(Bindings[s.b].target.ref, s.live \o s.args)]_vars

\* C18 witness: a binding with a function for target was called on an entity
\* with no provider at either tier and returned that function's value.
C18_Witness ==
  \E c \in Callers :
    LET s == callers[c]
        ent == entities[s.e]
    IN /\ s.pc = "done" /\ s.err = NoError /\ s.invoked
       /\ ~NameBased(s.b)
       /\ ent.instRules = NoProvider
       /\ ClassRules(ent.cls) = "None"
       /\ s.func = "external_pure_function"
       /\ s.ret = Apply("external_pure_function", s.live \o s.args)
       /\ s.ret # s.live[1]


\* C19: a binding declared through shell_method without a target has the
\* placeholder method's name for target and is resolved by that name like any
\* name-based binding; a binding declared with one field name given as a
\* string has the one-element field list of that name, and a call gathers
\* that one field.
C19_DefaultTargetAndSingleField ==
  [][\A c \in Callers :
       LET s == callers'[c]
           d == Declared[s.b]
           ent == entities[s.e]
           P == TierProvider(ent)
       IN FreshStep(c)
          => /\ (d.via = "shell_method" /\ d.pure_func = NoTarget)
                  => /\ Bindings[s.b].target = NameTarget(d.placeholder)
                     /\ IF P = NoProvider
                        THEN s.err = Err("RulesetProviderError", ent.cls, d.placeholder)
                        ELSE IF HasMember(P, d.placeholder)
                             THEN /\ s.func = GetMember(P, d.placeholder)
                                  /\ s.err.kind \notin ResolutionErrors
                             ELSE s.err = Err("PureFunctionError", d.placeholder, P.cls)
             /\ d.live.isStr
                  => /\ Bindings[s.b].fields = <<d.live.str>>
                     /\ s.invoked => s.live = <<ent.fields[d.live.str]>>
                     /\ s.err.kind = "LiveAttributeError" => s.err.a = d.live.str]_vars

\* C19 witness: a call of get_value, declared with the one string "data" and
\* no target, ran the provider's get_value on the one gathered field.
C19_Witness ==
  \E c \in Callers :
    LET s == callers[c]
        d == Declared[s.b]
    IN /\ s.pc = "done" /\ s.err = NoError /\ s.invoked /\ s.direct
       /\ d.via = "shell_method" /\ d.pure_func = NoTarget /\ d.live.isStr
       /\ s.func = GetMember(TierProvider(entities[s.e]), d.placeholder)
       /\ Len(s.live) = 1
       /\ s.live[1] = s.before[d.live.str]
       /\ s.ret = Apply(s.func, s.live)


\* C20: a step that gives entity e an instance-level provider, at
\* construction or later, changes no other entity and no class's type-level
\* default: every other entity resolves every binding after the step as
\* before it, and every class has the default it had.
C20_OverrideIsPerInstance ==
  [][\A e \in AllEntities :
       entities'[e].instRules # entities[e].instRules
         => /\ ownRules' = ownRules
            /\ \A t \in EntityTypes : ClassRules(t)' = ClassRules(t)
            /\ \A o \in AllEntities \ {e} :
                 /\ entities'[o] = entities[o]
                 /\ entities[o].created
                      => \A b \in BindingNames :
                           ResolveTarget(entities[o], b)' = ResolveTarget(entities[o], b)]_vars

\* C20 witness: of two entities of one class with a type-level default, one
\* carries an override and was served by it in the previous call; the call on
\* the other one ran the default's function, which is another function.
C20_Witness ==
  \E c \in Callers :
    LET s == callers[c]
        a == entities["e1"]
        o == entities["e2"]
    IN /\ s.pc = "done" /\ s.err = NoError /\ s.invoked
       /\ s.e = "e2"
       /\ a.created /\ o.created /\ a.cls = o.cls
       /\ a.instRules # NoProvider
       /\ o.instRules = NoProvider
       /\ ClassRules(o.cls) # "None"
       /\ s.func = GetMember(TypeProvider(ClassRules(o.cls)), TargetName(s.b))
       /\ HasMember(a.instRules, TargetName(s.b))
       /\ s.last.func = GetMember(a.instRules, TargetName(s.b))
       /\ s.last.func # s.func


\* This step, caller c called a binding: in one expression with the access,
\* or through a bound callable obtained earlier.
CallStep(c) ==
  /\ callers[c].pc \in {"idle", "bound"}
  /\ callers'[c].pc \in {"pending", "done"}
  /\ callers'[c].func # "nofunc"

\* C21: the path of a call is decided by the resolved function alone: a
\* coroutine function gives the caller a coroutine that has run nothing; any
\* other function is run in the call itself and its plain result (None for a
\* mutating binding) handed back, also when the placeholder was declared with
\* async def, and awaiting that plain result raises TypeError.
C21_PathByResolvedFunction ==
  [][\A c \in Callers :
       LET s == callers[c]
           t == callers'[c]
       IN /\ CallStep(c)
            => IF IsCoroutineFunction(t.func)
               THEN /\ t.pc = "pending" /\ ~t.invoked
                    /\ entities' = entities
               ELSE /\ t.pc = "done"
                    /\ t.err = NoError
                         => /\ t.invoked
                            /\ t.val = Apply(t.func, t.live \o t.args)
                            /\ t.ret = IF Bindings[t.b].mutates THEN NoneVal ELSE t.val
          /\ (s.pc = "done" /\ t.pc = "done" /\ t # s)
            => /\ Bindings[s.b].async_decl
               /\ ~IsCoroutineFunction(s.func)
               /\ s.err = NoError
               /\ t.err.kind = "TypeError:not-awaitable"
               /\ entities' = entities]_vars

\* C21 witness: a binding declared with async def was resolved to a
\* synchronous function, which ran in the call; the caller's await of the
\* result raised TypeError.
C21_Witness ==
  \E c \in Callers :
    LET s == callers[c]
    IN /\ s.pc = "done"
       /\ Bindings[s.b].async_decl
       /\ s.func # "nofunc" /\ ~IsCoroutineFunction(s.func)
       /\ s.invoked
       /\ s.val = Apply(s.func, s.live \o s.args)
       /\ s.err.kind = "TypeError:not-awaitable"


\* C22: after construction the instance-level provider is the ruleset
\* instance passed to the constructor when one is passed, otherwise what the
\* subtype had set on the instance, otherwise null.
C22_PassedElsePresetElseNull ==
  [][\A e \in AllEntities :
       (~entities[e].created /\ entities'[e].created)
       => \A preset \in Instances \cup {NoProvider}, ri \in Instances \cup {NoProvider} :
            Construct(e, entities'[e].cls, entities'[e].fields["data"], Sentinel,
                      preset, ri)
              => entities'[e].instRules = IF ri # NoProvider THEN ri ELSE preset]_vars

\* The same for the ruleset instances that are true in a condition: the
\* passed one wins, else the preset one stays, else null.
C22_TruthyPassedElsePreset ==
  [][\A e \in AllEntities :
       (~entities[e].created /\ entities'[e].created)
       => \A preset \in Instances \cup {NoProvider}, ri \in Instances \cup {NoProvider} :
            (Construct(e, entities'[e].cls, entities'[e].fields["data"], Sentinel,
                       preset, ri)
               /\ (ri # NoProvider => Truthy(ri)))
              => entities'[e].instRules = IF ri # NoProvider THEN ri ELSE preset]_vars

\* An entity holds a provider the subtype had set although the constructor
\* was given none, and an entity resolves through a passed instance.
C22_Witness ==
  /\ entities["e1"].created /\ entities["e1"].instRules = InstanceOf("RulesB")
  /\ entities["e2"].created /\ entities["e2"].instRules = NoProvider
  /\ InstanceOf(EmptyRulesSource.cls) \in Instances


\* C23: within one invoke the steps come in the order resolve, gather,
\* invoke, (suspend), write back or return: a field is read only for a
\* binding whose resolution succeeded; the function is invoked only with the
\* values of all declared fields, read from the entity in that step; an
\* asynchronous call suspends only after that; and a step of a call writes a
\* field only when the invoked function has returned, its value being what
\* is written.
C23_StepOrder ==
  [][\A c \in Callers :
       LET s == callers[c]
           t == callers'[c]
           names == Bindings[t.b].fields
       IN t # s
          => /\ (t.live # <<>> \/ t.err.kind = "LiveAttributeError")
                  => t.func # "nofunc"
             /\ (~s.invoked /\ t.invoked)
                  => /\ s.pc \in {"idle", "bound", "pending"}
                     /\ t.func # "nofunc"
                     /\ t.live = LiveData(entities[t.e], names)
             /\ t.pc = "suspended" => (s.pc = "pending" /\ t.invoked)
             /\ entities' # entities
                  => /\ t.pc = "done" /\ t.err = NoError /\ t.invoked
                     /\ IsCoroutineFunction(t.func) => s.pc = "suspended"
                     /\ t.val = Apply(t.func, t.live \o t.args)
                     /\ entities' = [entities EXCEPT ![t.e].fields[names[1]] = t.val]]_vars

\* C23 witness: an asynchronous mutating call has resolved, gathered and
\* invoked its function and is suspended in it; its first field still holds
\* the gathered value.
C23_Witness ==
  \E c \in Callers :
    LET s == callers[c]
    IN /\ s.pc = "suspended" /\ s.invoked
       /\ Bindings[s.b].mutates
       /\ Len(s.live) = Len(Bindings[s.b].fields)
       /\ entities[s.e].fields[Bindings[s.b].fields[1]] = s.live[1]


\* This step, caller c invoked binding callers'[c].b on entity callers'[c].e
\* in one expression.
InvokeStep(c) == FreshStep(c) /\ callers'[c].direct

\* C24 as claimed: an invoke of a name-based binding on an entity lacking a
\* declared field fails with LiveAttributeError, whether or not a provider is
\* registered and holds the name.
C24_MissingFieldAlways ==
  [][\A c \in Callers :
       LET t == callers'[c]
       IN (InvokeStep(c) /\ NameBased(t.b) /\ t.pc = "done"
             /\ AbsentFields(t.b, entities[t.e].fields) # {})
          => t.err.kind = "LiveAttributeError"]_vars

\* C24 amended: the fields are checked only after resolution succeeded. An
\* invoke of a name-based binding on an entity lacking a declared field fails
\* with RulesetProviderError when no provider is registered at either tier,
\* with PureFunctionError when the selected provider lacks the name, no field
\* being read in either case, and with LiveAttributeError otherwise (for a
\* coroutine function, when the coroutine is awaited).
C24_MissingFieldAfterResolution ==
  [][\A c \in Callers :
       LET s == callers[c]
           t == callers'[c]
           P == TierProvider(entities[t.e])
       IN /\ (InvokeStep(c) /\ NameBased(t.b)
                /\ AbsentFields(t.b, entities[t.e].fields) # {})
            => /\ entities' = entities
               /\ ~t.invoked
               /\ IF P = NoProvider
                  THEN t.pc = "done" /\ t.err.kind = "RulesetProviderError" /\ t.live = <<>>
                  ELSE IF ~HasMember(P, TargetName(t.b))
                  THEN t.pc = "done" /\ t.err.kind = "PureFunctionError" /\ t.live = <<>>
                  ELSE IF IsCoroutineFunction(GetMember(P, TargetName(t.b)))
                  THEN t.pc = "pending"
                  ELSE t.pc = "done" /\ t.err.kind = "LiveAttributeError"
          /\ (s.pc = "pending" /\ t # s
                /\ AbsentFields(s.b, entities[s.e].fields) # {})
            => t.pc = "done" /\ t.err.kind = "LiveAttributeError" /\ ~t.invoked]_vars

\* C24 witness: an invoke of a name-based binding on an entity lacking a
\* declared field ended with an error of resolution.
C24_Witness ==
  \E c \in Callers :
    LET s == callers[c]
    IN /\ s.pc = "done" /\ s.direct /\ NameBased(s.b)
       /\ s.err.kind = "PureFunctionError"
       /\ AbsentFields(s.b, s.before) # {}


\* The positional arguments the specification gives the pure function of a
\* call: the values fs holds for the declared fields, in declared order, then
\* the caller's arguments in the caller's order.
Positional(slot, fs) ==
  LET names == Bindings[slot.b].fields
  IN [k \in 1 .. Len(names) + Len(slot.args) |->
        IF k <= Len(names) THEN fs[names[k]] ELSE slot.args[k - Len(names)]]

\* C25: the pure function receives the current values of the binding's
\* fields in declared order, followed by the caller's arguments in the
\* caller's order: the result of a call is the function applied to exactly
\* that argument list, its k-th argument being the value gathered from the
\* k-th declared field (for a synchronous function, the value the field held
\* when the call was made).
C25_ArgumentOrder ==
  \A c \in Callers :
    LET s == callers[c]
        names == Bindings[s.b].fields
        gathered == [f \in FieldNames |->
                       IF \E k \in DOMAIN names : names[k] = f
                       THEN s.live[CHOOSE k \in DOMAIN names : names[k] = f]
                       ELSE Sentinel]
    IN (s.pc = "done" /\ s.invoked /\ s.err.kind \notin CallFailureKinds
          /\ s.err.kind # "CancelledError")
       => /\ Len(s.live) = Len(names)
          /\ s.val = Apply(s.func, Positional(s, gathered))
          /\ ~IsCoroutineFunction(s.func)
               => s.val = Apply(s.func, Positional(s, s.before))

\* C25 witness: a call over two fields and one caller argument ended with a
\* result that any other order of the three arguments would not have given.
C25_Witness ==
  \E c \in Callers :
    LET s == callers[c]
    IN /\ s.pc = "done" /\ s.invoked /\ s.err = NoError
       /\ Len(s.live) = 2 /\ Len(s.args) = 1
       /\ s.val # Apply(s.func, <<s.live[2], s.live[1], s.args[1]>>)
       /\ s.val # Apply(s.func, <<s.args[1], s.live[1], s.live[2]>>)
       /\ s.val # Apply(s.func, <<s.live[1], s.args[1], s.live[2]>>)


\* Callers c and d run their first call, of the same asynchronous mutating
\* binding resolved to the same function, on the same entity.
SameFirstCall(c, d) ==
  /\ c # d
  /\ callers[c].e = callers[d].e /\ callers[c].b = callers[d].b
  /\ callers[c].func = callers[d].func
  /\ callers[c].func # "nofunc" /\ IsCoroutineFunction(callers[c].func)
  /\ Bindings[callers[c].b].mutates
  /\ callers[c].last = NoLast /\ callers[d].last = NoLast

\* C26: two concurrent asynchronous mutating invokes on one entity are not
\* serialized: a call whose coroutine has not started can gather while the
\* other is suspended in its pure function, both suspended calls can resume,
\* and when both have gathered the same values and written, the field holds
\* the function of those values, one update only.
C26_NotSerialized ==
  \A c, d \in AllCallers :
    LET s == callers[c]
        u == callers[d]
    IN SameFirstCall(c, d)
       => /\ (s.pc = "pending" /\ u.pc = "suspended") => ENABLED StartAwait(c)
          /\ (s.pc = "suspended" /\ u.pc = "suspended")
               => ENABLED Resume(c) /\ ENABLED Resume(d)
          /\ (s.pc = "done" /\ u.pc = "done" /\ s.err = NoError /\ u.err = NoError
                /\ s.live = u.live)
               => entities[s.e].fields[Bindings[s.b].fields[1]]
                    = Apply(s.func, s.live \o s.args)

\* C26 witness: both calls gathered the same values before either wrote and
\* both have written: the field holds one update, not the two a serial
\* execution gives.
C26_Witness ==
  \E c, d \in AllCallers :
    LET s == callers[c]
        u == callers[d]
        once == Apply(s.func, s.live \o s.args)
    IN /\ SameFirstCall(c, d)
       /\ s.pc = "done" /\ u.pc = "done" /\ s.err = NoError /\ u.err = NoError
       /\ s.live = u.live
       /\ entities[s.e].fields[Bindings[s.b].fields[1]] = once
       /\ once # Apply(s.func, <<once, s.live[2]>> \o s.args)


\* C27: when the pure function raises during a mutating invoke, synchronous
\* or asynchronous, the step in which it raises changes no field and ends
\* the call with that failure and no value; the caller's next step takes the
\* failure, the function not being called again.
C27_RaiseWritesNothing ==
  [][\A c \in AllCallers :
       LET s == callers[c]
           t == callers'[c]
       IN /\ (t # s /\ t.pc = "done" /\ t.invoked
                /\ Raises(t.func, t.live \o t.args))
            => /\ t.err.kind = "ValueError"
               /\ t.ret = NoneVal /\ t.val = NoneVal
               /\ IF IsCoroutineFunction(t.func)
                  THEN s.pc = "suspended" ELSE s.pc \in {"idle", "bound"}
               /\ entities' = entities
          /\ (s.pc = "done" /\ s.err.kind = "ValueError" /\ t # s)
            => /\ t.pc = "idle" /\ ~t.invoked
               /\ entities' = entities]_vars

\* C27 witness: a synchronous and an asynchronous mutating call have both
\* ended with the error their pure function raised; the field they would
\* have written is as it was.
C27_Witness ==
  \E c, d \in AllCallers :
    LET s == callers[c]
        u == callers[d]
    IN /\ s.pc = "done" /\ s.err.kind = "ValueError" /\ s.invoked
       /\ u.pc = "done" /\ u.err.kind = "ValueError" /\ u.invoked
       /\ ~IsCoroutineFunction(s.func) /\ IsCoroutineFunction(u.func)
       /\ Bindings[s.b].mutates /\ Bindings[u.b].mutates
       /\ entities[s.e].fields = s.before
       /\ entities[u.e].fields = u.before
       /\ entities[s.e].fields[Bindings[s.b].fields[1]] = s.live[1]

\* C28: an asynchronous invoke reads all its declared fields in the one step
\* in which its coroutine starts and its function is invoked, so it is never
\* suspended before that; while it is suspended, a write of another call
\* leaves the gathered values as they are; when its function returns, the
\* result is the function of the gathered values and, for a mutating binding,
\* replaces whatever fields[0] holds by then.
C28_SnapshotAndOverwrite ==
  [][\A c \in AllCallers :
       LET s == callers[c]
           t == callers'[c]
           names == Bindings[s.b].fields
       IN /\ (t.pc = "suspended" /\ s.pc # "suspended")
            => /\ s.pc = "pending" /\ s.live = <<>> /\ ~s.invoked
               /\ t.invoked
               /\ t.live = LiveData(entities[s.e], names)
          /\ (s.pc = "suspended" /\ entities' # entities /\ t.pc = "suspended")
            => t = s
          /\ (s.pc = "suspended" /\ t.pc = "done" /\ t.err = NoError)
            => /\ t.val = Apply(s.func, s.live \o s.args)
               /\ Bindings[s.b].mutates
                    => entities'[s.e].fields[names[1]] = t.val]_vars

\* C28 witness: a mutating call ended whose first field had been written by
\* another call while it was suspended: the field holds the function of the
\* values this call gathered, which is not the function of the values the
\* fields held when it resumed.
C28_Witness ==
  \E c \in AllCallers :
    LET s == callers[c]
        names == Bindings[s.b].fields
    IN /\ s.pc = "done" /\ s.err = NoError /\ s.invoked
       /\ IsCoroutineFunction(s.func) /\ Bindings[s.b].mutates
       /\ s.before[names[1]] # s.live[1]
       /\ entities[s.e].fields[names[1]] = Apply(s.func, s.live \o s.args)
       /\ entities[s.e].fields[names[1]]
            # Apply(s.func, LiveData([fields |-> s.before], names) \o s.args)


\* C29: every binding has a non-empty field list, so every mutating invoke
\* whose pure function returned has written the returned value to fields[0],
\* and every other mutating invoke ended with one of the three failures of a
\* call, raised before the function was invoked.
C29_NonEmptyFieldsOneWrite ==
  \A c \in Callers :
    LET s == callers[c]
        names == Bindings[s.b].fields
    IN (s.pc = "done" /\ Bindings[s.b].mutates)
       => IF s.invoked
          THEN /\ Len(names) >= 1
               /\ s.err = NoError
               /\ entities[s.e].fields[names[1]] = s.val
          ELSE s.err.kind \in CallFailureKinds

\* The same for the bindings declared with at least one field; the mutating
\* invoke of a binding declared with none ends with IndexError after its
\* function returned, no field written.
C29_OneWriteWhenFieldsDeclared ==
  \A c \in Callers :
    LET s == callers[c]
        names == Bindings[s.b].fields
    IN (s.pc = "done" /\ Bindings[s.b].mutates)
       => IF ~s.invoked THEN s.err.kind \in CallFailureKinds
          ELSE IF Len(names) >= 1
          THEN s.err = NoError /\ entities[s.e].fields[names[1]] = s.val
          ELSE /\ s.err.kind = "IndexError"
               /\ s.val = Apply(s.func, s.args)
               /\ entities[s.e].fields = s.before

\* A mutating invoke of a binding declared with no field has ended.
C29_Witness ==
  \E c \in Callers :
    LET s == callers[c]
    IN /\ s.pc = "done" /\ Bindings[s.b].mutates /\ s.invoked
       /\ Bindings[s.b].fields = <<>>


\* C30: the type-level default is looked up on the entity's own type,
\* inherited entries included: an entity of a subtype without a default of
\* its own and without override resolves through the parent type's default;
\* a step that registers a default on the subtype makes the subtype's
\* entities without override resolve through it, and leaves the parent
\* type's default, every entity, and the resolution of every entity of the
\* parent type as they were.
C30_DefaultIsInherited ==
  [][/\ \A c \in Callers :
          LET t == callers'[c]
              ent == entities[t.e]
              n == TargetName(t.b)
          IN (FreshStep(c) /\ NameBased(t.b) /\ ent.instRules = NoProvider
                /\ ownRules[ent.cls] = "unset"
                /\ Parent(ent.cls) \in EntityTypes
                /\ ownRules[Parent(ent.cls)] # "unset"
                /\ HasMember(TypeProvider(ownRules[Parent(ent.cls)]), n))
             => t.func = GetMember(TypeProvider(ownRules[Parent(ent.cls)]), n)
     /\ \A sub \in EntityTypes :
          (Parent(sub) \in EntityTypes /\ ownRules'[sub] # ownRules[sub])
          => /\ ownRules'[Parent(sub)] = ownRules[Parent(sub)]
             /\ ClassRules(Parent(sub))' = ClassRules(Parent(sub))
             /\ entities' = entities
             /\ \A o \in AllEntities :
                  entities[o].created
                  => IF entities[o].cls = Parent(sub)
                     THEN ResolveTarget(entities[o], "get_value")'
                            = ResolveTarget(entities[o], "get_value")
                     ELSE entities[o].instRules = NoProvider
                            => ResolveTarget(entities[o], "get_value")'.func
                                 = GetMember(TypeProvider(ownRules'[sub]), "get_value")]_vars

\* C30 witness: the parent type and the subtype have different defaults; the
\* call on the entity of the parent type ran the parent default's function,
\* the call before it, on the entity of the subtype, the subtype default's.
C30_Witness ==
  \E c \in Callers :
    LET s == callers[c]
        a == entities["e1"]
        o == entities["e2"]
    IN /\ a.created /\ o.created
       /\ a.cls = "MyEntity" /\ o.cls = "SubEntity"
       /\ a.instRules = NoProvider /\ o.instRules = NoProvider
       /\ ownRules["MyEntity"] # "unset" /\ ownRules["SubEntity"] # "unset"
       /\ ownRules["MyEntity"] # ownRules["SubEntity"]
       /\ s.pc = "done" /\ s.err = NoError /\ s.e = "e1"
       /\ s.func = GetMember(TypeProvider(ownRules["MyEntity"]), TargetName(s.b))
       /\ s.last.func = GetMember(TypeProvider(ownRules["SubEntity"]), TargetName(s.b))
       /\ s.last.func # s.func

====
